---- MODULE Spec2Model ----
(***************************************************************************)
(* Clara customer-support chat backend: the intent router of /chat, the    *)
(* placeholder resolver, the reply formatter and the completion adapter.   *)
(*                                                                         *)
(* Text is a sequence of characters and a character is a one-letter        *)
(* string ("BULLET" stands for U+2022).  Python's str and re operations    *)
(* are operators over such sequences, computed as CPython computes them.   *)
(***************************************************************************)
EXTENDS Integers, Sequences, FiniteSets, TLC

(***************************************************************************)
(* str and re primitives                                                   *)
(***************************************************************************)

\* str.isspace / the regex class \s, restricted to the characters of the model
WS == {" ", "\n", "\t", "\r"}

Digits == {"0", "1", "2", "3", "4", "5", "6", "7", "8", "9"}

lowerOf ==
  "A" :> "a" @@ "B" :> "b" @@ "C" :> "c" @@ "D" :> "d" @@ "E" :> "e" @@
  "F" :> "f" @@ "G" :> "g" @@ "H" :> "h" @@ "I" :> "i" @@ "J" :> "j" @@
  "K" :> "k" @@ "L" :> "l" @@ "M" :> "m" @@ "N" :> "n" @@ "O" :> "o" @@
  "P" :> "p" @@ "Q" :> "q" @@ "R" :> "r" @@ "S" :> "s" @@ "T" :> "t" @@
  "U" :> "u" @@ "V" :> "v" @@ "W" :> "w" @@ "X" :> "x" @@ "Y" :> "y" @@
  "Z" :> "z"

Letters == DOMAIN lowerOf \cup {lowerOf[c] : c \in DOMAIN lowerOf}

\* the regex class \w
IsWord(c) == c \in Letters \/ c \in Digits \/ c = "_"

LowerChar(c) == IF c \in DOMAIN lowerOf THEN lowerOf[c] ELSE c

\* str.lower()
Lower(s) == [i \in 1..Len(s) |-> LowerChar(s[i])]

\* s[i:].startswith(n), i counted from 1
MatchAt(s, n, i) ==
  /\ i + Len(n) - 1 <= Len(s)
  /\ \A j \in 1..Len(n) : s[i + j - 1] = n[j]

\* the same, ignoring case (n is given in lower case): re.IGNORECASE
MatchAtI(s, n, i) ==
  /\ i + Len(n) - 1 <= Len(s)
  /\ \A j \in 1..Len(n) : LowerChar(s[i + j - 1]) = n[j]

\* n in s
Contains(s, n) == \E i \in 1..(Len(s) - Len(n) + 1) : MatchAt(s, n, i)

\* s.startswith(n)
StartsWith(s, n) == MatchAt(s, n, 1)

\* s[i:] for i counted from 1
From(s, i) == SubSeq(s, i, Len(s))

\* str.strip()
\* the least element of a non-empty set of positions
Min(S) == CHOOSE x \in S : \A y \in S : x <= y

\* str.rstrip(): the text up to its last character that is no whitespace
RStrip(s) ==
  LET back == {k \in 1..Len(s) : s[Len(s) + 1 - k] \notin WS}
  IN  IF back = {} THEN <<>> ELSE SubSeq(s, 1, Len(s) + 1 - Min(back))

\* str.strip()
Strip(s) ==
  LET keep == {i \in 1..Len(s) : s[i] \notin WS}
  IN  IF keep = {} THEN <<>> ELSE SubSeq(RStrip(s), Min(keep), Len(RStrip(s)))

\* the end (exclusive) of the run of whitespace that starts at i
SkipWS(s, i) ==
  LET stop == {j \in i..Len(s) : s[j] \notin WS}
  IN  IF i > Len(s) \/ s[i] \notin WS THEN i
      ELSE IF stop = {} THEN Len(s) + 1 ELSE Min(stop)

\* the end (exclusive) of the run of digits that starts at i
SkipDigits(s, i) ==
  LET stop == {j \in i..Len(s) : s[j] \notin Digits}
  IN  IF i > Len(s) \/ s[i] \notin Digits THEN i
      ELSE IF stop = {} THEN Len(s) + 1 ELSE Min(stop)

\* the regex assertion \b at the gap before s[i]
WordBoundary(s, i) ==
  LET before == i > 1 /\ IsWord(s[i - 1])
      after  == i <= Len(s) /\ IsWord(s[i])
  IN  before # after

\* the lines of a text (str.splitlines, for a text whose only line break is \n)
RECURSIVE LinesFrom(_, _)
LinesFrom(s, i) ==
  LET at == {j \in i..Len(s) : s[j] = "\n"}
  IN  IF i > Len(s) THEN <<>>
      ELSE IF at = {} THEN <<From(s, i)>>
      ELSE <<SubSeq(s, i, Min(at) - 1)>> \o LinesFrom(s, Min(at) + 1)

\* sep.join(parts)
RECURSIVE Join(_, _)
Join(parts, sep) ==
  IF parts = <<>> THEN <<>>
  ELSE IF Len(parts) = 1 THEN parts[1]
  ELSE parts[1] \o sep \o Join(Tail(parts), sep)

(***************************************************************************)
(* Placeholder resolver: app/utils.py                                      *)
(***************************************************************************)

K_managed_cloud_hosting == <<"m","a","n","a","g","e","d"," ","c","l","o","u","d"," ","h","o","s","t","i","n","g">>   \* "managed cloud hosting"
K_vps == <<"v","p","s">>   \* "vps"
K_public_cloud_services == <<"p","u","b","l","i","c"," ","c","l","o","u","d"," ","s","e","r","v","i","c","e","s">>   \* "public cloud services"
K_what_cloud == <<"w","h","a","t"," ","c","l","o","u","d">>   \* "what cloud"
K_cloud_offerings_list == <<"c","l","o","u","d","_","o","f","f","e","r","i","n","g","s","_","l","i","s","t">>   \* "cloud_offerings_list"
\* mapping[k] = v on a dict that keeps insertion order: a key already present
\* keeps its place and takes the new value
DictSet(m, k, v) ==
  IF \E i \in 1..Len(m) : m[i].key = k
  THEN [i \in 1..Len(m) |-> IF m[i].key = k THEN [key |-> k, val |-> v] ELSE m[i]]
  ELSE Append(m, [key |-> k, val |-> v])

DictHas(m, k) == \E i \in 1..Len(m) : m[i].key = k

DictGet(m, k) == m[CHOOSE i \in 1..Len(m) : m[i].key = k].val

\* the body of "for f in faqs", for one entry
MapFaq(m, f) ==
  LET q  == Lower(f.question)
      a  == f.answer
      m1 == IF Contains(q, K_managed_cloud_hosting) \/ Contains(q, <<"m","a","n","a","g","e","d"," ","c","l","o","u","d">> (* "managed cloud" *))
            THEN DictSet(DictSet(m, <<"s","e","r","v","i","c","e"," ","1">> (* "service 1" *), a), K_managed_cloud_hosting, a)
            ELSE m
      m2 == IF Contains(q, <<"v","i","r","t","u","a","l"," ","p","r","i","v","a","t","e"," ","s","e","r","v","e","r","s">> (* "virtual private servers" *)) \/ Contains(q, K_vps)
            THEN DictSet(DictSet(m1, <<"s","e","r","v","i","c","e"," ","2">> (* "service 2" *), a), K_vps, a)
            ELSE m1
      m3 == IF Contains(q, <<"p","u","b","l","i","c"," ","c","l","o","u","d">> (* "public cloud" *)) \/ Contains(q, K_public_cloud_services)
            THEN DictSet(DictSet(m2, <<"s","e","r","v","i","c","e"," ","3">> (* "service 3" *), a), K_public_cloud_services, a)
            ELSE m2
  IN  IF StartsWith(q, K_what_cloud) THEN DictSet(m3, K_cloud_offerings_list, a) ELSE m3

RECURSIVE BuildMappingFrom(_, _)
BuildMappingFrom(m, faqs) ==
  IF faqs = <<>> THEN m ELSE BuildMappingFrom(MapFaq(m, Head(faqs)), Tail(faqs))

BuildMapping(faqs) == BuildMappingFrom(<<>>, faqs)

\* a match of r"\[" + re.escape(key) + r"\]" (re.IGNORECASE) starts at j
BracketAt(text, key, j) ==
  /\ text[j] = "["
  /\ MatchAtI(text, key, j + 1)
  /\ j + Len(key) + 1 <= Len(text)
  /\ text[j + Len(key) + 1] = "]"

\* pattern.sub(replacement, text) of that pattern, from i: the leftmost
\* match, then the rest after it
RECURSIVE SubBracket(_, _, _, _)
SubBracket(text, key, replacement, i) ==
  LET at == {j \in i..Len(text) : BracketAt(text, key, j)}
  IN  IF at = {} THEN From(text, i)
      ELSE SubSeq(text, i, Min(at) - 1) \o replacement
             \o SubBracket(text, key, replacement, Min(at) + Len(key) + 2)

\* a match of rf"\b{re.escape(key)}\b" (re.IGNORECASE) starts at j
WordAt(text, key, j) ==
  /\ MatchAtI(text, key, j)
  /\ WordBoundary(text, j)
  /\ WordBoundary(text, j + Len(key))

\* pattern2.sub(replacement, text), from i
RECURSIVE SubWord(_, _, _, _)
SubWord(text, key, replacement, i) ==
  LET at == {j \in i..Len(text) : WordAt(text, key, j)}
  IN  IF at = {} THEN From(text, i)
      ELSE SubSeq(text, i, Min(at) - 1) \o replacement
             \o SubWord(text, key, replacement, Min(at) + Len(key))

\* What a Python call gives: a returned text, or an exception.
Returned(t) == [raised |-> FALSE, text |-> t]

Raised == [raised |-> TRUE, text |-> <<>>]

\* The name `re` inside replace_placeholders_in_reply.  The statement
\* "import re" at utils.py:103 stands in the function's body (after the return
\* of line 99), so Python compiles `re` as a local (cell) variable of the
\* function, shadowing the module's import of line 28; no statement that runs
\* binds it, and every use of `re` in the function and in the nested
\* safe_insert_replacement raises NameError / UnboundLocalError.
re_is_bound == FALSE

safe_insert_replacement(text, key, replacement) ==
  IF Strip(replacement) # <<>> /\ Contains(text, Strip(replacement)) THEN Returned(text)
  ELSE IF ~re_is_bound THEN Raised
  ELSE LET new_text == SubBracket(text, key, replacement, 1)
       IN  IF new_text # text THEN Returned(new_text)
           ELSE Returned(SubWord(text, key, replacement, 1))

\* "for key, val in mapping.items(): out = safe_insert_replacement(out, key, val)"
RECURSIVE InsertAll(_, _)
InsertAll(out, mapping) ==
  IF mapping = <<>> THEN Returned(out)
  ELSE LET r == safe_insert_replacement(out, Head(mapping).key, Head(mapping).val)
       IN  IF r.raised THEN Raised ELSE InsertAll(r.text, Tail(mapping))

\* the "these include" rule
EnsureOfferings(out, mapping) ==
  IF /\ Contains(Lower(out), <<"t","h","e","s","e"," ","i","n","c","l","u","d","e">> (* "these include" *)) \/ Contains(Lower(out), <<"t","h","e","s","e"," ","i","n","c","l","u","d","e",":">> (* "these include:" *))
     /\ DictHas(mapping, K_cloud_offerings_list)
     /\ DictGet(mapping, K_cloud_offerings_list) # <<>>
     /\ ~Contains(out, DictGet(mapping, K_cloud_offerings_list))
  THEN out \o <<"\n", "\n">> \o DictGet(mapping, K_cloud_offerings_list)
  ELSE out

Terminal == {".", "!", "?"}

\* re.split(r'(?<=[.!?])\s+', s), from st: a separator starts at a whitespace
\* character that follows a terminal and takes the whole run of whitespace
RECURSIVE SplitSentFrom(_, _)
SplitSentFrom(s, st) ==
  LET at == {j \in st..Len(s) : s[j] \in WS /\ j > 1 /\ s[j - 1] \in Terminal}
  IN  IF at = {} THEN <<From(s, st)>>
      ELSE <<SubSeq(s, st, Min(at) - 1)>> \o SplitSentFrom(s, SkipWS(s, Min(at)))

SplitSentences(s) == SplitSentFrom(s, 1)

\* the loop over sentences: drop the empty ones and the immediate repeats
RECURSIVE Dedup(_, _, _)
Dedup(sentences, prev, deduped) ==
  IF sentences = <<>> THEN deduped
  ELSE LET s_stripped == Strip(Head(sentences))
       IN  IF s_stripped = <<>> THEN Dedup(Tail(sentences), prev, deduped)
           ELSE IF prev # <<>> /\ s_stripped = prev
                THEN Dedup(Tail(sentences), prev, deduped)
                ELSE Dedup(Tail(sentences), s_stripped, Append(deduped, s_stripped))

\* lines 85-97
DedupSentences(out) ==
  IF ~re_is_bound THEN Raised
  ELSE LET deduped == Dedup(SplitSentences(Strip(out)), <<>>, <<>>)
       IN  Returned(IF deduped # <<>> THEN Join(deduped, <<" ">>) ELSE out)

replace_placeholders_in_reply(reply, faqs) ==
  IF reply = <<>> \/ faqs = <<>> THEN Returned(reply)
  ELSE LET mapping  == BuildMapping(faqs)
           inserted == InsertAll(reply, mapping)
       IN  IF inserted.raised THEN Raised
           ELSE DedupSentences(EnsureOfferings(inserted.text, mapping))

(***************************************************************************)
(* Reply formatter: app/llm_engine.py                                      *)
(***************************************************************************)

FILLER_PREFIXES == <<
  <<"e","x","c","e","l","l","e","n","t">>,
  <<"g","r","e","a","t">>,
  <<"o","k","a","y">>,
  <<"s","u","r","e">>,
  <<"t","h","a","n","k","s">>,
  <<"t","h","a","n","k"," ","y","o","u">>,
  <<"p","e","r","f","e","c","t">>,
  <<"a","l","r","i","g","h","t">> >>

\* "Would you like instructions to set this up or should I escalate this?"
FOLLOW_UP ==
  <<"W","o","u","l","d"," ","y","o","u"," ","l","i","k","e"," ","i","n","s","t","r","u","c","t","i","o","n","s"," ","t","o"," ","s","e","t"," ","t","h","i","s"," ","u","p"," ","o","r"," ","s","h","o","u","l","d"," ","I"," ","e","s","c","a","l","a","t","e"," ","t","h","i","s","?">>

\* the class [\*] alone: a formatter that leaves U+2022 in place
StarOnly == {"*"}

\* the characters of the class [\*•]
Bullets == {"*", "BULLET"}

\* re.sub(r"^\s*<word>[!.,]?\s*", "", reply, flags=re.IGNORECASE) for one prefix
StripFiller(reply, word) ==
  LET w == SkipWS(reply, 1)
      p == w + Len(word)
      q == IF p <= Len(reply) /\ reply[p] \in {"!", ".", ","} THEN p + 1 ELSE p
  IN  IF MatchAtI(reply, word, w) THEN From(reply, SkipWS(reply, q)) ELSE reply

\* "for pattern in _FILLER_PREFIXES": the first prefix that changes the reply
RECURSIVE RemoveFiller(_, _)
RemoveFiller(reply, patterns) ==
  IF patterns = <<>> THEN reply
  ELSE LET new_reply == StripFiller(reply, Head(patterns))
       IN  IF new_reply # reply THEN Strip(new_reply)
           ELSE RemoveFiller(reply, Tail(patterns))

\* s.replace(old, new), from i
RECURSIVE ReplaceFrom(_, _, _, _)
ReplaceFrom(s, old, new, i) ==
  LET at == {j \in i..Len(s) : MatchAt(s, old, j)}
  IN  IF at = {} THEN From(s, i)
      ELSE SubSeq(s, i, Min(at) - 1) \o new \o ReplaceFrom(s, old, new, Min(at) + Len(old))

Replace(s, old, new) == ReplaceFrom(s, old, new, 1)

\* a match of r'\s*[\*•]\s*' starts at j: whitespace, then a bullet
BulletAt(s, j) == SkipWS(s, j) <= Len(s) /\ s[SkipWS(s, j)] \in Bullets

\* re.sub(r'\s*[\*•]\s*', r'\n- ', reply), from i
RECURSIVE SubBullets(_, _)
SubBullets(s, i) ==
  LET at == {j \in i..Len(s) : BulletAt(s, j)}
  IN  IF at = {} THEN From(s, i)
      ELSE SubSeq(s, i, Min(at) - 1) \o <<"\n", "-", " ">>
             \o SubBullets(s, SkipWS(s, SkipWS(s, Min(at)) + 1))

\* a match of r'(?<!\n)(\b\d+\.)\s*' starts at j
NumberAt(s, j) ==
  /\ s[j] \in Digits
  /\ j > 1 => (s[j - 1] # "\n" /\ ~IsWord(s[j - 1]))
  /\ SkipDigits(s, j) <= Len(s)
  /\ s[SkipDigits(s, j)] = "."

\* re.sub(r'(?<!\n)(\b\d+\.)\s*', r'\n\1 ', reply), from i
RECURSIVE SubNumbers(_, _)
SubNumbers(s, i) ==
  LET at == {j \in i..Len(s) : NumberAt(s, j)}
  IN  IF at = {} THEN From(s, i)
      ELSE SubSeq(s, i, Min(at) - 1) \o <<"\n">>
             \o SubSeq(s, Min(at), SkipDigits(s, Min(at))) \o <<" ">>
             \o SubNumbers(s, SkipWS(s, SkipDigits(s, Min(at)) + 1))

\* the end (exclusive) of a match of r'(-\s|(\d+\.\s))' at j, or 0
ListMarkerEnd(s, j) ==
  IF j + 1 <= Len(s) /\ s[j] = "-" /\ s[j + 1] \in WS THEN j + 2
  ELSE IF /\ j <= Len(s) /\ s[j] \in Digits
          /\ SkipDigits(s, j) + 1 <= Len(s)
          /\ s[SkipDigits(s, j)] = "."
          /\ s[SkipDigits(s, j) + 1] \in WS
       THEN SkipDigits(s, j) + 2
       ELSE 0

\* a match of r'([^\n])\n(-\s|(\d+\.\s))' starts at j
ListAfterTextAt(s, j) ==
  /\ s[j] # "\n"
  /\ j + 1 <= Len(s) /\ s[j + 1] = "\n"
  /\ ListMarkerEnd(s, j + 2) # 0

\* re.sub(r'([^\n])\n(-\s|(\d+\.\s))', r'\1\n\n\2', reply), from i
RECURSIVE SubBlankBeforeList(_, _)
SubBlankBeforeList(s, i) ==
  LET at == {j \in i..Len(s) : ListAfterTextAt(s, j)}
  IN  IF at = {} THEN From(s, i)
      ELSE SubSeq(s, i, Min(at)) \o <<"\n", "\n">>
             \o SubSeq(s, Min(at) + 2, ListMarkerEnd(s, Min(at) + 2) - 1)
             \o SubBlankBeforeList(s, ListMarkerEnd(s, Min(at) + 2))

\* the end (exclusive) of the run of newlines that starts at i
SkipNL(s, i) ==
  LET stop == {j \in i..Len(s) : s[j] # "\n"}
  IN  IF i > Len(s) \/ s[i] # "\n" THEN i
      ELSE IF stop = {} THEN Len(s) + 1 ELSE Min(stop)

\* re.sub(r'\n{3,}', '\n\n', reply), from i
RECURSIVE SubNewlines(_, _)
SubNewlines(s, i) ==
  LET at == {j \in i..Len(s) : SkipNL(s, j) - j >= 3}
  IN  IF at = {} THEN From(s, i)
      ELSE SubSeq(s, i, Min(at) - 1) \o <<"\n", "\n">> \o SubNewlines(s, SkipNL(s, Min(at)))

\* [line.strip() for line in reply.splitlines()] without the empty lines, from i
RECURSIVE StrippedLines(_, _)
StrippedLines(s, i) ==
  LET at   == {j \in i..Len(s) : s[j] = "\n"}
      stop == IF at = {} THEN Len(s) + 1 ELSE Min(at)
      line == Strip(SubSeq(s, i, stop - 1))
      rest == IF stop >= Len(s) THEN <<>> ELSE StrippedLines(s, stop + 1)
  IN  IF i > Len(s) THEN <<>>
      ELSE IF line = <<>> THEN rest ELSE <<line>> \o rest

\* a match of r'(?<!\n)\s-\s' starts at j
DashAt(s, j) ==
  /\ j + 2 <= Len(s)
  /\ s[j] \in WS /\ s[j + 1] = "-" /\ s[j + 2] \in WS
  /\ j > 1 => s[j - 1] # "\n"

\* re.sub(r'(?<!\n)\s-\s', r'\n- ', reply), from i
RECURSIVE SubDashes(_, _)
SubDashes(s, i) ==
  LET at == {j \in i..Len(s) : DashAt(s, j)}
  IN  IF at = {} THEN From(s, i)
      ELSE SubSeq(s, i, Min(at) - 1) \o <<"\n", "-", " ">> \o SubDashes(s, Min(at) + 3)

\* reply[-200:]
TailWindow == 200

\* the least length for which the follow-up question is appended
FollowUpMinLen == 20

LastChars(s, n) == IF Len(s) <= n THEN s ELSE SubSeq(s, Len(s) - n + 1, Len(s))

\* lines 118-122
AppendFollowUp(reply) ==
  IF /\ ~Contains(LastChars(reply, TailWindow), <<"?">>)
     /\ ~Contains(Lower(reply), <<"e","s","c","a","l","a","t">> (* "escalat" *))
     /\ ~StartsWith(Lower(reply), <<"i","'","m"," ","h","a","v","i","n","g"," ","t","r","o","u","b","l","e">> (* "i'm having trouble" *))
     /\ Len(reply) > FollowUpMinLen
  THEN RStrip(reply) \o <<"\n", "\n">> \o FOLLOW_UP
  ELSE reply

postprocess_reply(raw_reply) ==
  IF raw_reply = <<>> THEN raw_reply
  ELSE LET r1 == RemoveFiller(Strip(raw_reply), FILLER_PREFIXES)
           r2 == Replace(Replace(r1, <<"\r", "\n">>, <<"\n">>), <<"\r">>, <<"\n">>)
           r3 == SubBullets(r2, 1)
           r4 == SubNumbers(r3, 1)
           r5 == SubBlankBeforeList(r4, 1)
           r6 == SubNewlines(r5, 1)
           r7 == Join(StrippedLines(r6, 1), <<"\n">>)
           r8 == SubDashes(r7, 1)
       IN  AppendFollowUp(r8)

(***************************************************************************)
(* Completion adapter: app/llm_engine.py                                   *)
(***************************************************************************)

\* "I'm escalating this issue to a human support agent. Please wait while I connect you."
ESCALATION_REPLY ==
  <<"I","'","m"," ","e","s","c","a","l","a","t","i","n","g"," ","t","h","i","s"," ","i","s","s","u","e"," ","t","o"," ","a"," ","h","u","m","a","n"," ","s","u","p","p","o","r","t"," ","a","g","e","n","t","."," ","P","l","e","a","s","e"," ","w","a","i","t"," ","w","h","i","l","e"," ","I"," ","c","o","n","n","e","c","t"," ","y","o","u",".">>

\* "I'm having trouble reaching the support system right now. Please try again later."
TROUBLE_REPLY ==
  <<"I","'","m"," ","h","a","v","i","n","g"," ","t","r","o","u","b","l","e"," ","r","e","a","c","h","i","n","g"," ","t","h","e"," ","s","u","p","p","o","r","t"," ","s","y","s","t","e","m"," ","r","i","g","h","t"," ","n","o","w","."," ","P","l","e","a","s","e"," ","t","r","y"," ","a","g","a","i","n"," ","l","a","t","e","r",".">>

low_confidence_phrases == <<
  <<"i"," ","d","o","n","'","t"," ","k","n","o","w">>,
  <<"i"," ","a","m"," ","n","o","t"," ","s","u","r","e">>,
  <<"i","'","m"," ","n","o","t"," ","s","u","r","e">>,
  <<"i"," ","c","a","n","n","o","t"," ","h","e","l","p"," ","w","i","t","h">>,
  <<"c","a","n","'","t"," ","h","e","l","p">>,
  <<"i"," ","m","i","g","h","t"," ","b","e"," ","w","r","o","n","g">>,
  <<"p","l","e","a","s","e"," ","c","o","n","t","a","c","t"," ","s","u","p","p","o","r","t">>,
  <<"e","s","c","a","l","a","t","e">> >>

\* a reply shorter than this is escalated
MinReplyLen == 10

\* a value that is not a str (the "content" of a candidate may be anything)
NonStr == <<"<non-str>">>

\* What one call of the service can do: answer with an object that has .text,
\* with a dict of candidates (content a str that is not empty, or not a str), with an object
\* whose .text is None; or fail with an error whose message says "not found" /
\* "404", or with any other error (network, timeout).
OutcomeKinds == {"text", "dict", "dict_nonstr", "text_none", "not_found", "error"}

\* One try-block of _call_generate_content (lines 170-199 for the model, lines
\* 203-238 for the client): "returned" with the text, "raised" for the
\* RuntimeError of a model that is not found, "passed" when the except clause
\* falls through.
TryBackend(outcome) ==
  CASE outcome.kind = "text"        -> [how |-> "returned", text |-> Strip(outcome.text)]
    [] outcome.kind = "dict"        -> [how |-> "returned", text |-> outcome.text]
    [] outcome.kind = "dict_nonstr" -> [how |-> "returned", text |-> NonStr]
    [] outcome.kind = "not_found"   -> [how |-> "raised", text |-> <<>>]
    [] OTHER                        -> [how |-> "passed", text |-> <<>>]

\* model, client: whether the module's objects of those names are not None;
\* outcome: what the service does with the call
call_generate_content(model, client, outcome) ==
  LET t == TryBackend(outcome)
  IN  IF model /\ t.how = "returned" THEN Returned(t.text)
      ELSE IF model /\ t.how = "raised" THEN Raised
      ELSE IF client /\ t.how = "returned" THEN Returned(t.text)
      ELSE Raised

\* a test that compares the reply as it is, without lowered = reply.lower()
is_low_confidence_cased(reply) ==
  \/ \E i \in 1..Len(low_confidence_phrases) : Contains(reply, low_confidence_phrases[i])
  \/ Len(Strip(reply)) < MinReplyLen

\* lines 257-263
is_low_confidence(reply) ==
  LET lowered == Lower(reply)
  IN  \/ \E i \in 1..Len(low_confidence_phrases) : Contains(lowered, low_confidence_phrases[i])
      \/ Len(Strip(reply)) < MinReplyLen

\* the reply after line 255, for a call that returned a str
formatted_reply(called) == postprocess_reply(called.text)

\* a generate_response whose handler answers a failed call with the escalation text
generate_response_escalating(model, client, outcome) ==
  LET called == call_generate_content(model, client, outcome)
      reply  == formatted_reply(called)
  IN  IF called.raised THEN ESCALATION_REPLY
      ELSE IF called.text = NonStr THEN ESCALATION_REPLY
      ELSE IF is_low_confidence(reply) THEN ESCALATION_REPLY
      ELSE reply

\* generate_response(context, user_input), lines 244-271
generate_response(model, client, outcome) ==
  LET called == call_generate_content(model, client, outcome)
      reply  == formatted_reply(called)
  IN  IF called.raised THEN TROUBLE_REPLY
      ELSE IF called.text = NonStr THEN TROUBLE_REPLY   \* raw_reply.strip(): AttributeError
      ELSE IF is_low_confidence(reply) THEN ESCALATION_REPLY
      ELSE reply

(***************************************************************************)
(* Session summary: summarize_session in app/llm_engine.py                 *)
(***************************************************************************)

\* s.find(n), counted from 1: the place of the first occurrence, or 0
Find(s, n) ==
  LET at == {i \in 1..(Len(s) - Len(n) + 1) : MatchAt(s, n, i)}
  IN  IF at = {} THEN 0 ELSE Min(at)

\* s.strip().lstrip("-").strip()
Clean(s) ==
  LET t    == Strip(s)
      keep == {i \in 1..Len(t) : t[i] # "-"}
  IN  IF keep = {} THEN <<>> ELSE Strip(From(t, Min(keep)))

\* lines 308-311: the cleaned lines that are not empty
RECURSIVE CleanLines(_)
CleanLines(lines) ==
  IF lines = <<>> THEN <<>>
  ELSE (IF Clean(Head(lines)) = <<>> THEN <<>> ELSE <<Clean(Head(lines))>>)
         \o CleanLines(Tail(lines))

\* lines 291-305: summary_part and actions_part of the stripped completion;
\* `raised` is the IndexError of parts[1] at line 297, when str.split finds
\* no "next_actions:" in the letter case of line 295
SummaryParts(reply) ==
  LET summary_marker == <<"s","u","m","m","a","r","y",":">>
      actions_marker == <<"n","e","x","t","_","a","c","t","i","o","n","s",":">>
      ByLines(text) ==
        LET lines == LinesFrom(text, 1)
        IN  [raised |-> FALSE,
             summary_part |-> IF lines = <<>> THEN <<>> ELSE lines[1],
             actions_part |-> IF Len(lines) > 1
                              THEN Join(SubSeq(lines, 2, Min({4, Len(lines)})), <<"\n">>)
                              ELSE <<>>]
      idx           == Find(Lower(reply), summary_marker)
      after_summary == Strip(From(reply, idx + Len(summary_marker)))
      cut           == Find(after_summary, actions_marker)
  IN  IF idx = 0 THEN ByLines(reply)
      ELSE IF ~Contains(Lower(after_summary), actions_marker) THEN ByLines(after_summary)
      ELSE IF cut = 0 THEN [raised |-> TRUE, summary_part |-> <<>>, actions_part |-> <<>>]
      ELSE [raised |-> FALSE,
            summary_part |-> Strip(SubSeq(after_summary, 1, cut - 1)),
            actions_part |-> Strip(From(after_summary, cut + Len(actions_marker)))]

\* the result of the except clause, line 317
UNABLE_SUMMARY ==
  [summary |-> <<"U","n","a","b","l","e"," ","t","o"," ","s","u","m","m","a","r","i","z","e"," ","a","t"," ","t","h","i","s"," ","t","i","m","e",".">> (* "Unable to summarize at this time." *),
   next_actions |-> <<>>]

\* summarize_session(messages_text), lines 275-317
summarize_session(model, client, outcome) ==
  LET called  == call_generate_content(model, client, outcome)
      parts   == SummaryParts(Strip(called.text))
      summary == Clean(parts.summary_part)
      actions == CleanLines(LinesFrom(parts.actions_part, 1))
  IN  IF called.raised THEN UNABLE_SUMMARY
      ELSE IF called.text = NonStr THEN UNABLE_SUMMARY   \* reply.strip(): AttributeError
      ELSE IF parts.raised THEN UNABLE_SUMMARY
      ELSE [summary |-> IF summary = <<>>
                        THEN <<"N","o"," ","s","u","m","m","a","r","y"," ","a","v","a","i","l","a","b","l","e",".">> (* "No summary available." *)
                        ELSE summary,
            next_actions |-> SubSeq(actions, 1, Min({3, Len(actions)}))]

(***************************************************************************)
(* FAQ store: app/utils.py, with difflib as CPython implements it          *)
(***************************************************************************)

\* the code point of a character
ord ==
  " " :> 32 @@ "!" :> 33 @@ "\"" :> 34 @@ "#" :> 35 @@ "$" :> 36 @@ "%" :> 37 @@
  "&" :> 38 @@ "'" :> 39 @@ "(" :> 40 @@ ")" :> 41 @@ "*" :> 42 @@ "+" :> 43 @@
  "," :> 44 @@ "-" :> 45 @@ "." :> 46 @@ "/" :> 47 @@ "0" :> 48 @@ "1" :> 49 @@
  "2" :> 50 @@ "3" :> 51 @@ "4" :> 52 @@ "5" :> 53 @@ "6" :> 54 @@ "7" :> 55 @@
  "8" :> 56 @@ "9" :> 57 @@ ":" :> 58 @@ ";" :> 59 @@ "<" :> 60 @@ "=" :> 61 @@
  ">" :> 62 @@ "?" :> 63 @@ "@" :> 64 @@ "A" :> 65 @@ "B" :> 66 @@ "C" :> 67 @@
  "D" :> 68 @@ "E" :> 69 @@ "F" :> 70 @@ "G" :> 71 @@ "H" :> 72 @@ "I" :> 73 @@
  "J" :> 74 @@ "K" :> 75 @@ "L" :> 76 @@ "M" :> 77 @@ "N" :> 78 @@ "O" :> 79 @@
  "P" :> 80 @@ "Q" :> 81 @@ "R" :> 82 @@ "S" :> 83 @@ "T" :> 84 @@ "U" :> 85 @@
  "V" :> 86 @@ "W" :> 87 @@ "X" :> 88 @@ "Y" :> 89 @@ "Z" :> 90 @@ "[" :> 91 @@
  "\\" :> 92 @@ "]" :> 93 @@ "^" :> 94 @@ "_" :> 95 @@ "a" :> 97 @@
  "b" :> 98 @@ "c" :> 99 @@ "d" :> 100 @@ "e" :> 101 @@ "f" :> 102 @@ "g" :> 103 @@
  "h" :> 104 @@ "i" :> 105 @@ "j" :> 106 @@ "k" :> 107 @@ "l" :> 108 @@ "m" :> 109 @@
  "n" :> 110 @@ "o" :> 111 @@ "p" :> 112 @@ "q" :> 113 @@ "r" :> 114 @@ "s" :> 115 @@
  "t" :> 116 @@ "u" :> 117 @@ "v" :> 118 @@ "w" :> 119 @@ "x" :> 120 @@ "y" :> 121 @@
  "z" :> 122 @@ "{" :> 123 @@ "|" :> 124 @@ "}" :> 125 @@ "~" :> 126 @@ "\n" :> 10 @@
  "\t" :> 9 @@ "\r" :> 13 @@ "BULLET" :> 8226

\* a > b for str
RECURSIVE StrGreater(_, _)
StrGreater(a, b) ==
  LET diff == {i \in 1..Len(a) : i > Len(b) \/ a[i] # b[i]}
  IN  IF diff = {} THEN FALSE
      ELSE Min(diff) > Len(b) \/ ord[a[Min(diff)]] > ord[b[Min(diff)]]

\* the length of the common run of a from i and b from j, inside a[..ahi], b[..bhi]
RunLen(a, b, i, j, ahi, bhi) ==
  LET m    == IF ahi - i < bhi - j THEN ahi - i + 1 ELSE bhi - j + 1
      diff == {t \in 0..(m - 1) : a[i + t] # b[j + t]}
  IN  IF diff = {} THEN m ELSE Min(diff)

\* SequenceMatcher.find_longest_match(alo, ahi, blo, bhi) without junk: the
\* longest block, the earliest in a, and of those the earliest in b; <<i, j, k>>
find_longest_match(a, b, alo, ahi, blo, bhi) ==
  LET blocks == {<<i, j, RunLen(a, b, i, j, ahi, bhi)>> :
                   <<i, j>> \in {p \in (alo..ahi) \X (blo..bhi) : a[p[1]] = b[p[2]]}}
      longest == {x \in blocks : \A y \in blocks : y[3] <= x[3]}
      first_a == {x \in longest : \A y \in longest : x[1] <= y[1]}
  IN  IF blocks = {} THEN <<alo, blo, 0>>
      ELSE CHOOSE x \in first_a : \A y \in first_a : x[2] <= y[2]

\* the number of matched characters: the sum of the sizes of
\* SequenceMatcher.get_matching_blocks()
RECURSIVE Matches(_, _, _, _, _, _)
Matches(a, b, alo, ahi, blo, bhi) ==
  IF alo > ahi \/ blo > bhi THEN 0
  ELSE LET x == find_longest_match(a, b, alo, ahi, blo, bhi)
       IN  IF x[3] = 0 THEN 0
           ELSE x[3] + Matches(a, b, alo, x[1] - 1, blo, x[2] - 1)
                     + Matches(a, b, x[1] + x[3], ahi, x[2] + x[3], bhi)

Count(s, c) == Cardinality({i \in 1..Len(s) : s[i] = c})

RECURSIVE SumMin(_, _, _)
SumMin(chars, a, b) ==
  IF chars = {} THEN 0
  ELSE LET c == CHOOSE x \in chars : TRUE
           n == IF Count(a, c) < Count(b, c) THEN Count(a, c) ELSE Count(b, c)
       IN  n + SumMin(chars \ {c}, a, b)

\* the matches counted by quick_ratio(): the characters in common, as multisets
QuickMatches(a, b) == SumMin({a[i] : i \in 1..Len(a)}, a, b)

\* the matches counted by real_quick_ratio()
RealQuickMatches(a, b) == IF Len(a) < Len(b) THEN Len(a) ELSE Len(b)

\* the default threshold of find_best_faq_match, in hundredths
CutoffPercent == 65

\* _calculate_ratio(matches, length) >= cutoff
RatioAtLeastCutoff(matches, length) ==
  IF length = 0 THEN TRUE ELSE 200 * matches >= CutoffPercent * length

\* the test of difflib.get_close_matches for one possibility x
IsCloseMatch(word, x) ==
  /\ RatioAtLeastCutoff(RealQuickMatches(x, word), Len(x) + Len(word))
  /\ RatioAtLeastCutoff(QuickMatches(x, word), Len(x) + Len(word))
  /\ RatioAtLeastCutoff(Matches(x, word, 1, Len(x), 1, Len(word)), Len(x) + Len(word))

\* (ratio, x) > (ratio, y) for close matches x and y of the same word: the
\* order of heapq.nlargest
ScoredGreater(word, x, y) ==
  LET mx == Matches(x, word, 1, Len(x), 1, Len(word))
      my == Matches(y, word, 1, Len(y), 1, Len(word))
      tx == Len(x) + Len(word)
      ty == Len(y) + Len(word)
      \* an empty word and an empty possibility have ratio 1.0
      nx == IF tx = 0 THEN 1 ELSE 2 * mx
      dx == IF tx = 0 THEN 1 ELSE tx
      ny == IF ty = 0 THEN 1 ELSE 2 * my
      dy == IF ty = 0 THEN 1 ELSE ty
  IN  \/ nx * dy > ny * dx
      \/ nx * dy = ny * dx /\ StrGreater(x, y)

\* find_best_faq_match(user_query, faqs): the index of the entry, or 0 for None
find_best_faq_match(user_query, faqs) ==
  LET close == {i \in 1..Len(faqs) : IsCloseMatch(user_query, faqs[i].question)}
      best  == {i \in close : \A j \in close :
                  ~ScoredGreater(user_query, faqs[j].question, faqs[i].question)}
  IN  IF close = {} THEN 0
      ELSE Min({i \in 1..Len(faqs) : \E j \in best : faqs[i].question = faqs[j].question})

(***************************************************************************)
(* Intent router: the decisions of chat() in app/routes.py                 *)
(***************************************************************************)

K_cloud_offering == <<"c","l","o","u","d"," ","o","f","f","e","r","i","n","g">>   \* "cloud offering"
K_what_cloud_offerings == <<"w","h","a","t"," ","c","l","o","u","d"," ","o","f","f","e","r","i","n","g","s">>   \* "what cloud offerings"
K_service == <<"s","e","r","v","i","c","e">>   \* "service"

\* "would you like to know about our specific cloud"
ASKED_ABOUT_OFFERINGS ==
  <<"w","o","u","l","d"," ","y","o","u"," ","l","i","k","e"," ","t","o"," ","k","n","o","w"," ","a","b","o","u","t"," ","o","u","r"," ","s","p","e","c","i","f","i","c"," ","c","l","o","u","d">>

short_yes == {<<"y","e","s">>, <<"y">>, <<"s","u","r","e">>, <<"o","k">>, <<"o","k","a","y">>}   \* yes, y, sure, ok, okay

selection_prompt ==
  <<"I"," ","l","i","s","t","e","d"," ","s","e","v","e","r","a","l"," ","c","l","o","u","d"," ","s","o","l","u","t","i","o","n","s","."," ","P","l","e","a","s","e"," ","c","h","o","o","s","e"," ","w","h","i","c","h"," ","y","o","u","'","d"," ","l","i","k","e"," ","t","o"," ","e","x","p","l","o","r","e",":","\n">> \o
  <<"\n">> \o
  <<"1","."," ","M","a","n","a","g","e","d"," ","C","l","o","u","d"," ","H","o","s","t","i","n","g","\n">> \o
  <<"2","."," ","V","i","r","t","u","a","l"," ","P","r","i","v","a","t","e"," ","S","e","r","v","e","r","s"," ","(","V","P","S",")","\n">> \o
  <<"3","."," ","P","u","b","l","i","c"," ","C","l","o","u","d"," ","S","e","r","v","i","c","e","s","\n">> \o
  <<"\n">> \o
  <<"R","e","p","l","y"," ","w","i","t","h"," ","\"","s","e","r","v","i","c","e"," ","1","\"",","," ","\"","s","e","r","v","i","c","e"," ","2","\"",","," ","o","r"," ","\"","s","e","r","v","i","c","e"," ","3","\""," ","t","o"," ","g","e","t"," ","d","e","t","a","i","l","s",".">>

T_managed == <<"T","e","l","l"," ","m","e"," ","a","b","o","u","t"," ","M","a","n","a","g","e","d"," ","C","l","o","u","d"," ","H","o","s","t","i","n","g">>   \* "Tell me about Managed Cloud Hosting"
T_vps == <<"T","e","l","l"," ","m","e"," ","a","b","o","u","t"," ","V","i","r","t","u","a","l"," ","P","r","i","v","a","t","e"," ","S","e","r","v","e","r","s"," ","(","V","P","S",")">>   \* "Tell me about Virtual Private Servers (VPS)"
T_public == <<"T","e","l","l"," ","m","e"," ","a","b","o","u","t"," ","P","u","b","l","i","c"," ","C","l","o","u","d"," ","S","e","r","v","i","c","e","s">>   \* "Tell me about Public Cloud Services"
T_offerings == <<"W","h","a","t"," ","c","l","o","u","d"," ","o","f","f","e","r","i","n","g","s"," ","d","o"," ","y","o","u"," ","h","a","v","e">>   \* "What cloud offerings do you have"

quick_keyword_map == <<
  [kw |-> <<"m","a","n","a","g","e","d">>, target_q |-> T_managed],
  [kw |-> <<"m","a","n","a","g","e","d"," ","h","o","s","t","i","n","g">>, target_q |-> T_managed],
  [kw |-> <<"m","a","n","a","g","e","d"," ","c","l","o","u","d">>, target_q |-> T_managed],
  [kw |-> <<"v","p","s">>, target_q |-> T_vps],
  [kw |-> <<"v","i","r","t","u","a","l"," ","p","r","i","v","a","t","e"," ","s","e","r","v","e","r">>, target_q |-> T_vps],
  [kw |-> <<"p","u","b","l","i","c">>, target_q |-> T_public],
  [kw |-> <<"p","u","b","l","i","c"," ","c","l","o","u","d">>, target_q |-> T_public],
  [kw |-> <<"c","l","o","u","d"," ","o","f","f","e","r","i","n","g">>, target_q |-> T_offerings],
  [kw |-> <<"c","l","o","u","d"," ","o","f","f","e","r","i","n","g","s">>, target_q |-> T_offerings] >>

\* next((f for f in faqs if f["question"].lower().startswith(prefix)), None):
\* the index of the entry, or 0 for None
FirstStartingWith(faqs, prefix) ==
  LET hit == {i \in 1..Len(faqs) : StartsWith(Lower(faqs[i].question), prefix)}
  IN  IF hit = {} THEN 0 ELSE Min(hit)

\* next((f for f in faqs if f["question"].lower() == target_q.lower()), None)
FirstAsking(faqs, target_q) ==
  LET hit == {i \in 1..Len(faqs) : Lower(faqs[i].question) = Lower(target_q)}
  IN  IF hit = {} THEN 0 ELSE Min(hit)

\* the test of line 64
AsksAboutOfferings(uq_lower) ==
  \/ Contains(uq_lower, K_cloud_offering)
  \/ Contains(uq_lower, <<"c","l","o","u","d"," ","o","f","f","e","r","i","n","g","s">> (* "cloud offerings" *))
  \/ Contains(uq_lower, <<"t","e","l","l"," ","m","e"," ","a","b","o","u","t">> (* "tell me about" *)) /\ Contains(uq_lower, <<"c","l","o","u","d">> (* "cloud" *))

\* the test of line 80
IsConfirmation(user_query, last_bot_text) ==
  /\ Lower(user_query) \in short_yes
  /\ Contains(last_bot_text, ASKED_ABOUT_OFFERINGS)

\* int() of a run of digits
RECURSIVE ParseInt(_)
ParseInt(digits) ==
  IF digits = <<>> THEN 0
  ELSE 10 * ParseInt(SubSeq(digits, 1, Len(digits) - 1)) + (ord[digits[Len(digits)]] - ord["0"])

\* lines 122-131: the target question of "service N", or <<>> for none
ServiceTarget(lowered) ==
  LET d   == SkipWS(lowered, Len(K_service) + 1)
      e   == SkipDigits(lowered, d)
      idx == ParseInt(SubSeq(lowered, d, e - 1))
  IN  IF ~StartsWith(lowered, K_service) \/ e = d THEN <<>>
      ELSE CASE idx = 1 -> T_managed
             [] idx = 2 -> T_vps
             [] idx = 3 -> T_public
             [] OTHER   -> <<>>

\* lines 133-134: the index of the entry "service N" answers with, or 0
ServiceFaq(lowered, faqs) ==
  IF ServiceTarget(lowered) = <<>> THEN 0 ELSE FirstAsking(faqs, ServiceTarget(lowered))

\* lines 157-160: the entry of the first keyword of the map that the message
\* holds and that has an entry, or 0
KeywordFaq(lowered, faqs) ==
  LET hit == {k \in 1..Len(quick_keyword_map) :
                /\ Contains(lowered, quick_keyword_map[k].kw)
                /\ FirstAsking(faqs, quick_keyword_map[k].target_q) # 0}
  IN  IF hit = {} THEN 0 ELSE FirstAsking(faqs, quick_keyword_map[Min(hit)].target_q)

(***************************************************************************)
(* State                                                                   *)
(***************************************************************************)

VARIABLES
  rp_reply, rp_faqs,   \* the arguments of replace_placeholders_in_reply
  rp_once, rp_twice,   \* its result, and the result of applying it to that
  rp_pc,
  pp_raw, pp_out,      \* the argument and the result of postprocess_reply
  pp_pc,
  llm_model,           \* llm_engine.model is not None
  llm_client,          \* llm_engine.client is not None
  gen_outcome,         \* what the completion service does with the call
  gen_called,          \* what _call_generate_content gave
  gen_reply,           \* generate_response's local `reply` after line 255
  gen_result,          \* what generate_response returns
  gen_pc,
  faq_file,            \* the entries of faqs/faqs.json, as load_faqs() reads them
  n_sessions,          \* the rows of support_session have the ids 1..n_sessions
  messages,            \* the rows of message, in the order of their insertion
  req,                 \* the /chat requests in flight, one per worker
  n_chats,             \* the /chat requests received so far
  tickets,             \* the rows of ticket; the id of a row is its index
  resp,                \* the response of the last call that was not a /chat
  sm_outcome,          \* what the completion service does for summarize_session
  sm_result,           \* what summarize_session returns
  sm_pc

rpVars  == <<rp_reply, rp_faqs, rp_once, rp_twice, rp_pc>>
ppVars  == <<pp_raw, pp_out, pp_pc>>
llmVars == <<llm_model, llm_client>>
genVars == <<gen_outcome, gen_called, gen_reply, gen_result, gen_pc>>
chatVars == <<faq_file, n_sessions, messages, req, n_chats>>
deskVars == <<tickets, resp>>
smVars  == <<sm_outcome, sm_result, sm_pc>>
vars    == <<rpVars, ppVars, llmVars, genVars, chatVars, deskVars, smVars>>

\* all the texts made of at most n pieces of the sequence `pieces`
RECURSIVE Phrases(_, _)
Phrases(pieces, n) ==
  IF n = 0 THEN {<<>>}
  ELSE Phrases(pieces, n - 1) \cup
       {p \o pieces[i] : p \in Phrases(pieces, n - 1), i \in 1..Len(pieces)}

\* the FAQ file
FullFaqs == <<
  [question |-> <<"W","h","a","t"," ","c","l","o","u","d"," ","o","f","f","e","r","i","n","g","s"," ","d","o"," ","y","o","u"," ","h","a","v","e">> (* "What cloud offerings do you have" *),
   answer   |-> <<"W","e"," ","o","f","f","e","r"," ","[","S","e","r","v","i","c","e"," ","1","]"," ","a","n","d"," ","V","P","S",".">> (* "We offer [Service 1] and VPS." *)],
  [question |-> <<"T","e","l","l"," ","m","e"," ","a","b","o","u","t"," ","M","a","n","a","g","e","d"," ","C","l","o","u","d"," ","H","o","s","t","i","n","g">> (* "Tell me about Managed Cloud Hosting" *),
   answer   |-> <<"M","a","n","a","g","e","d"," ","h","o","s","t","i","n","g",":"," ","w","e"," ","r","u","n"," ","i","t",".">> (* "Managed hosting: we run it." *)],
  [question |-> <<"T","e","l","l"," ","m","e"," ","a","b","o","u","t"," ","V","i","r","t","u","a","l"," ","P","r","i","v","a","t","e"," ","S","e","r","v","e","r","s"," ","(","V","P","S",")">> (* "Tell me about Virtual Private Servers (VPS)" *),
   answer   |-> <<"A"," ","V","P","S"," ","i","s"," ","y","o","u","r","s","."," ","S","e","e"," ","s","e","r","v","i","c","e"," ","1",".">> (* "A VPS is yours. See service 1." *)],
  [question |-> <<"T","e","l","l"," ","m","e"," ","a","b","o","u","t"," ","P","u","b","l","i","c"," ","C","l","o","u","d"," ","S","e","r","v","i","c","e","s">> (* "Tell me about Public Cloud Services" *),
   answer   |-> <<"P","u","b","l","i","c"," ","c","l","o","u","d"," ","s","c","a","l","e","s",".">> (* "Public cloud scales." *)],
  [question |-> <<"W","h","a","t"," ","i","s"," ","y","o","u","r"," ","r","e","f","u","n","d"," ","p","o","l","i","c","y">> (* "What is your refund policy" *),
   answer   |-> <<"R","e","f","u","n","d","s"," ","t","a","k","e"," ","5"," ","d","a","y","s",".">> (* "Refunds take 5 days." *)] >>

(***************************************************************************)
(* replace_placeholders_in_reply applied once and twice                    *)
(***************************************************************************)

\* the number of pieces of a reply given to the resolver
MaxPieces == 3

ReplyPieces == <<
  <<"[","S","e","r","v","i","c","e"," ","1","]">>,            \* "[Service 1]"
  <<"s","e","r","v","i","c","e"," ","2">>,                    \* "service 2"
  <<"A","."," ">>,                                            \* "A. "
  <<"B","!">>,                                                \* "B!"
  <<"t","h","e","s","e"," ","i","n","c","l","u","d","e">>,    \* "these include"
  <<" ">> >>

ResolverFaqs ==
  { <<>>,
    <<FullFaqs[2]>>,
    <<FullFaqs[3], FullFaqs[2]>>,
    FullFaqs }

RpIdle ==
  /\ rp_reply = <<>> /\ rp_faqs = <<>>
  /\ rp_once = Raised /\ rp_twice = Raised /\ rp_pc = "off"

PpIdle == pp_raw = <<>> /\ pp_out = <<>> /\ pp_pc = "off"

LlmIdle == llm_model = FALSE /\ llm_client = FALSE

GenIdle ==
  /\ gen_outcome = [kind |-> "error", text |-> <<>>]
  /\ gen_called = Raised
  /\ gen_reply = <<>> /\ gen_result = <<>> /\ gen_pc = "off"

\* the workers that serve requests
Reqs == {1, 2}

\* a worker that serves no request
NoRequest ==
  [pc |-> "idle", user_query |-> <<>>, session |-> 0, user_msg |-> 0,
   branch |-> "none", context |-> <<>>, raw |-> <<>>, resolver |-> "none",
   reply |-> <<>>, llm |-> "none", status |-> 0]

\* no call that was not a /chat has been answered
NoResponse ==
  [op |-> "none", status |-> 0, ticket_id |-> 0, summary |-> <<>>,
   next_actions |-> <<>>, rows |-> <<>>]

ChatIdle ==
  /\ faq_file = <<>> /\ n_sessions = 0 /\ messages = <<>>
  /\ req = [r \in Reqs |-> NoRequest] /\ n_chats = 0
  /\ tickets = <<>> /\ resp = NoResponse

SmIdle ==
  /\ sm_outcome = [kind |-> "error", text |-> <<>>]
  /\ sm_result = [summary |-> <<>>, next_actions |-> <<>>] /\ sm_pc = "off"

InitResolver ==
  /\ rp_reply \in Phrases(ReplyPieces, MaxPieces)
  /\ rp_faqs \in ResolverFaqs
  /\ rp_once = Raised /\ rp_twice = Raised /\ rp_pc = "start"
  /\ PpIdle /\ LlmIdle /\ GenIdle /\ ChatIdle /\ SmIdle

\* out = replace_placeholders_in_reply(reply, faqs)
ResolveOnce ==
  /\ rp_pc = "start"
  /\ rp_once' = replace_placeholders_in_reply(rp_reply, rp_faqs)
  /\ rp_pc' = "once"
  /\ UNCHANGED <<rp_reply, rp_faqs, rp_twice, ppVars, llmVars, genVars, chatVars, deskVars, smVars>>

\* replace_placeholders_in_reply(out, faqs); an exception of the first call
\* leaves nothing to apply the second one to
ResolveTwice ==
  /\ rp_pc = "once"
  /\ rp_twice' = IF rp_once.raised THEN Raised
                 ELSE replace_placeholders_in_reply(rp_once.text, rp_faqs)
  /\ rp_pc' = "twice"
  /\ UNCHANGED <<rp_reply, rp_faqs, rp_once, ppVars, llmVars, genVars, chatVars, deskVars, smVars>>

NextResolver == ResolveOnce \/ ResolveTwice

SpecResolver == InitResolver /\ [][NextResolver]_vars

(***************************************************************************)
(* postprocess_reply applied to a completion                               *)
(***************************************************************************)

\* the length of the texts over FormatChars given to the formatter
MaxRawLen == 4

FormatChars == {"a", " ", "\n", "*", "BULLET", "-", "1", "."}

FormatPieces == <<
  <<"G","r","e","a","t","!"," ">>,                                        \* "Great! "
  <<"H","e","r","e"," ","a","r","e"," ","t","h","e"," ","o","p","t","i","o","n","s",":">>,  \* "Here are the options:"
  <<" ","*"," ","A","l","p","h","a">>,                                    \* " * Alpha"
  <<" ","1","."," ","o","n","e">>,                                        \* " 1. one"
  <<"\n","\n","\n","BULLET"," ","b">>,
  <<"\r","\n">>,
  <<" ","-"," ","x">>,                                                    \* " - x"
  <<"W","h","y","?">> >>                                                  \* "Why?"

\* the pieces of a longer completion
MaxFormatPieces == 2

RawReplies ==
  UNION {[1..n -> FormatChars] : n \in 0..MaxRawLen}
    \cup Phrases(FormatPieces, MaxFormatPieces)

InitFormat ==
  /\ pp_raw \in RawReplies
  /\ pp_out = <<>> /\ pp_pc = "start"
  /\ RpIdle /\ LlmIdle /\ GenIdle /\ ChatIdle /\ SmIdle

\* reply = postprocess_reply(raw)
Format ==
  /\ pp_pc = "start"
  /\ pp_out' = postprocess_reply(pp_raw)
  /\ pp_pc' = "done"
  /\ UNCHANGED <<pp_raw, rpVars, llmVars, genVars, chatVars, deskVars, smVars>>

NextFormat == Format

SpecFormat == InitFormat /\ [][NextFormat]_vars

(***************************************************************************)
(* generate_response applied to what the completion service does           *)
(***************************************************************************)

\* the pieces of a completion given to generate_response
MaxGenPieces == 2

GenPieces == <<
  <<"O","K">>,                                                            \* "OK"
  <<"I","'","m"," ","n","o","t"," ","s","u","r","e","."," ">>,            \* "I'm not sure. "
  <<"R","e","s","t","a","r","t"," ","t","h","e"," ","r","o","u","t","e","r"," ","n","o","w",".">>,  \* "Restart the router now."
  <<" ","C","a","n","'","t"," ","h","e","l","p">>,                        \* " Can't help"
  <<"W","h","y","?">>,                                                    \* "Why?"
  <<" "," ">>,
  <<"*"," ","A","s","k"," ","u","s">> >>                                  \* "* Ask us"

Completions == Phrases(GenPieces, MaxGenPieces)

\* what the service may do with a set of completions: the kinds that carry a
\* text carry any of them (the content of a candidate is not empty)
OutcomesOver(completions) ==
  {[kind |-> "text", text |-> t] : t \in completions}
    \cup {[kind |-> "dict", text |-> t] : t \in completions \ {<<>>}}
    \cup {[kind |-> k, text |-> <<>>] : k \in OutcomeKinds \ {"text", "dict"}}

Outcomes == OutcomesOver(Completions)

\* module initialisation, lines 17-32: the model object, or else the client,
\* or neither
InitLlm ==
  /\ llm_model \in BOOLEAN
  /\ llm_client \in BOOLEAN
  /\ ~(llm_model /\ llm_client)

InitGen ==
  /\ InitLlm
  /\ gen_outcome \in Outcomes
  /\ gen_called = Raised /\ gen_reply = <<>> /\ gen_result = <<>> /\ gen_pc = "start"
  /\ RpIdle /\ PpIdle /\ ChatIdle /\ SmIdle

\* generate_response(context, user_input)
Generate ==
  /\ gen_pc = "start"
  /\ LET called == call_generate_content(llm_model, llm_client, gen_outcome)
     IN  /\ gen_called' = called
         /\ gen_reply' = IF called.raised \/ called.text = NonStr THEN <<>>
                         ELSE formatted_reply(called)
  /\ gen_result' = generate_response(llm_model, llm_client, gen_outcome)
  /\ gen_pc' = "done"
  /\ UNCHANGED <<gen_outcome, llmVars, rpVars, ppVars, chatVars, deskVars, smVars>>

NextGen == Generate

SpecGen == InitGen /\ [][NextGen]_vars

(***************************************************************************)
(* summarize_session applied to what the completion service does           *)
(***************************************************************************)

\* the completions given to summarize_session: a summary marker or none, a
\* summary, an actions marker or none, and the lines that follow
SummaryCompletions ==
  {head \o body \o marker \o rest :
     head \in {<<>>, <<"S","U","M","M","A","R","Y",":">>, <<"s","u","m","m","a","r","y",":">>,
               <<"A"," ","S","u","m","m","a","r","y",":","\n">>},
     body \in {<<>>, <<" ","A","s","k","s"," ","r","e","f","u","n","d",".">>,
               <<"\n","-"," ","W","a","n","t","s"," ","V","P","S","\n">>},
     marker \in {<<>>, <<"N","E","X","T","_","A","C","T","I","O","N","S",":">>,
                 <<"n","e","x","t","_","a","c","t","i","o","n","s",":">>,
                 <<"\n","N","e","x","t","_","A","c","t","i","o","n","s",":">>},
     rest \in {<<>>, <<"\n","-"," ","a","\n","-"," ","b">>,
               <<"\n","-"," ","a","\n","\n","-","-"," ","b","\n","-"," ","c","\n","-"," ","d">>,
               <<" ","x","\n"," ","-","\n","y">>}}

InitSummary ==
  /\ InitLlm
  /\ sm_outcome \in OutcomesOver(SummaryCompletions)
  /\ sm_result = [summary |-> <<>>, next_actions |-> <<>>] /\ sm_pc = "start"
  /\ RpIdle /\ PpIdle /\ GenIdle /\ ChatIdle

\* result = summarize_session(messages_text)
SummarizeSession ==
  /\ sm_pc = "start"
  /\ sm_result' = summarize_session(llm_model, llm_client, sm_outcome)
  /\ sm_pc' = "done"
  /\ UNCHANGED <<sm_outcome, llmVars, rpVars, ppVars, genVars, chatVars, deskVars>>

NextSummary == SummarizeSession

SpecSummary == InitSummary /\ [][NextSummary]_vars

(***************************************************************************)
(* POST /chat: app/routes.py                                               *)
(***************************************************************************)

M_HELLO == <<"h","e","l","l","o">>   \* "hello"
L_ASKS == <<"S","e","e"," ","[","S","e","r","v","i","c","e"," ","1","]","."," ","W","o","u","l","d"," ","y","o","u"," ","l","i","k","e"," ","t","o"," ","k","n","o","w"," ","a","b","o","u","t"," ","o","u","r"," ","s","p","e","c","i","f","i","c"," ","c","l","o","u","d"," ","o","f","f","e","r","i","n","g","s","?">>   \* "See [Service 1]. Would you like to know about our specific cloud offerings?"

\* the /chat requests of a run
MaxChats == 2

\* what a client may send as "message"; <<>> is also a missing message
ChatMessages == {
  <<>>,
  <<" ", "\t", "\n">>,
  <<"y","e","s">> (* "yes" *),
  <<"W","h","a","t"," ","c","l","o","u","d"," ","o","f","f","e","r","i","n","g","s"," ","d","o"," ","y","o","u"," ","h","a","v","e","?">> (* "What cloud offerings do you have?" *),
  <<"s","e","r","v","i","c","e"," ","1">> (* "service 1" *),
  <<"v","p","s"," ","p","r","i","c","i","n","g">> (* "vps pricing" *),
  <<"W","h","a","t"," ","i","s"," ","y","o","u","r"," ","r","e","f","u","n","d"," ","p","o","l","i","c","y","?">> (* "What is your refund policy?" *),
  M_HELLO }

\* what the completion service may do during a /chat request
ChatOutcomes == {
  [kind |-> "text", text |-> L_ASKS],
  [kind |-> "error", text |-> <<>>] }

\* faqs/faqs.json is absent, or holds the entries of FullFaqs
ChatFaqFiles == {<<>>, FullFaqs}

\* an earlier conversation the database file may hold when the server
\* starts: a greeting, which went to the completion service, and the reply
\* that /chat saved for it
Earlier ==
  << [session_id |-> 1, sender |-> "user", text |-> M_HELLO],
     [session_id |-> 1, sender |-> "clara", text |-> L_ASKS] >>

\* a longer conversation the database file may hold: five such exchanges
Long == Earlier \o Earlier \o Earlier \o Earlier \o Earlier

\* the server has started: create_all() has made the tables or found them
\* with their rows, the FAQ file is there or not, and llm_engine has its
\* model object (lines 25-27)
Init ==
  /\ faq_file \in ChatFaqFiles
  /\ \/ n_sessions = 0 /\ messages = <<>>
     \/ n_sessions = 1 /\ messages = Long
  /\ req = [r \in Reqs |-> NoRequest] /\ n_chats = 0
  /\ llm_model = TRUE /\ llm_client = FALSE
  /\ tickets = <<>> /\ resp = NoResponse
  /\ RpIdle /\ PpIdle /\ GenIdle /\ SmIdle

\* a worker that serves no request, or has returned its response; a new
\* request goes to the free worker of the least number (the workers are alike)
Free(r) == req[r].pc \in {"idle", "done"}

\* .filter_by(session_id=sid, sender=who).order_by(Message.timestamp.asc()):
\* the indexes of those rows
RowsOf(sid, who) ==
  {i \in 1..Len(messages) : messages[i].session_id = sid /\ messages[i].sender = who}

\* the k-th row from the end of a set of rows, or 0: .order_by(desc).offset(k - 1).first()
FromEnd(rows, k) ==
  LET hit == {i \in rows : Cardinality({j \in rows : j > i}) = k - 1}
  IN  IF hit = {} THEN 0 ELSE CHOOSE i \in hit : TRUE

\* lines 55-60
LastBotText(sid) ==
  IF FromEnd(RowsOf(sid, "clara"), 1) = 0 THEN <<>>
  ELSE Lower(messages[FromEnd(RowsOf(sid, "clara"), 1)].text)

\* lines 86-92
PrevUserText(sid) ==
  IF FromEnd(RowsOf(sid, "user"), 2) = 0 THEN <<>>
  ELSE Lower(messages[FromEnd(RowsOf(sid, "user"), 2)].text)

\* the stored messages of session sid, oldest first
SessionMessages(sid) ==
  LET InSession(m) == m.session_id = sid
  IN  SelectSeq(messages, InSession)

\* recent[-10:]
ContextWindow == 10

\* line 182: the last of the rows, a line "sender: text" each
ContextText(rows) ==
  LET recent == LastChars(rows, ContextWindow)
      Name(sender) == IF sender = "user" THEN <<"u","s","e","r">>
                      ELSE <<"c","l","a","r","a">>
  IN  Join([i \in 1..Len(recent) |->
              Name(recent[i].sender) \o <<":", " ">> \o recent[i].text], <<"\n">>)

\* a branch of the router has its reply, which waits to be resolved and saved
Routed(q, branch, raw) ==
  [q EXCEPT !.pc = "save_bot", !.branch = branch, !.raw = raw]

\* a handler that fetches or creates the session before it looks at the message
ChatReceive_SessionFirst(r, message, session_id) ==
  /\ Free(r) /\ \A o \in Reqs : Free(o) => r <= o
  /\ n_chats < MaxChats
  /\ n_chats' = n_chats + 1
  /\ LET user_query == Strip(message)
         found      == session_id # 0 /\ session_id <= n_sessions
     IN  /\ n_sessions' = IF found THEN n_sessions ELSE n_sessions + 1
         /\ req' = [req EXCEPT ![r] =
               IF user_query = <<>>
               THEN [NoRequest EXCEPT !.pc = "done", !.status = 400]
               ELSE [NoRequest EXCEPT !.pc = "save_user", !.user_query = user_query,
                                      !.session = IF found THEN session_id
                                                  ELSE n_sessions + 1]]
  /\ UNCHANGED <<faq_file, messages, llmVars, rpVars, ppVars, genVars, deskVars, smVars>>

\* lines 24-41: the request is read; an empty message is refused, and
\* otherwise the session is fetched, or created when the request names none
\* or one that does not exist
ChatReceive(r, message, session_id) ==
  /\ Free(r) /\ \A o \in Reqs : Free(o) => r <= o
  /\ n_chats < MaxChats
  /\ n_chats' = n_chats + 1
  /\ LET user_query == Strip(message)
         found      == session_id # 0 /\ session_id <= n_sessions
     IN  IF user_query = <<>>
         THEN /\ req' = [req EXCEPT ![r] = [NoRequest EXCEPT !.pc = "done", !.status = 400]]
              /\ UNCHANGED n_sessions
         ELSE /\ n_sessions' = IF found THEN n_sessions ELSE n_sessions + 1
              /\ req' = [req EXCEPT ![r] =
                           [NoRequest EXCEPT !.pc = "save_user",
                                             !.user_query = user_query,
                                             !.session = IF found THEN session_id
                                                         ELSE n_sessions + 1]]
  /\ UNCHANGED <<faq_file, messages, llmVars, rpVars, ppVars, genVars, deskVars, smVars>>

\* lines 44-46
ChatSaveUser(r) ==
  /\ req[r].pc = "save_user"
  /\ messages' = Append(messages, [session_id |-> req[r].session, sender |-> "user",
                                   text |-> req[r].user_query])
  /\ req' = [req EXCEPT ![r].pc = "route", ![r].user_msg = Len(messages) + 1]
  /\ UNCHANGED <<faq_file, n_sessions, n_chats, llmVars, rpVars, ppVars, genVars, deskVars, smVars>>

\* a router that looks at the keyword table before the "service N" rule
ChatRoute_KeywordFirst(r) ==
  /\ req[r].pc = "route"
  /\ LET q        == req[r]
         faqs_all == faq_file
         lowered  == Lower(q.user_query)
         offering == FirstStartingWith(faqs_all, K_what_cloud)
         service  == ServiceFaq(lowered, faqs_all)
         keyword  == KeywordFaq(lowered, faqs_all)
         fuzzy    == find_best_faq_match(q.user_query, faqs_all)
     IN  req' = [req EXCEPT ![r] =
           IF AsksAboutOfferings(lowered) /\ offering # 0
             THEN Routed(q, "offerings", faqs_all[offering].answer)
           ELSE IF /\ IsConfirmation(q.user_query, LastBotText(q.session))
                   /\ FirstStartingWith(faqs_all, K_what_cloud_offerings) # 0
             THEN [q EXCEPT !.pc = "read_prev_user"]
           ELSE IF keyword # 0 THEN Routed(q, "keyword", faqs_all[keyword].answer)
           ELSE IF service # 0 THEN Routed(q, "service", faqs_all[service].answer)
           ELSE IF fuzzy # 0 THEN Routed(q, "faq", faqs_all[fuzzy].answer)
           ELSE [q EXCEPT !.pc = "llm"]]
  /\ UNCHANGED <<faq_file, n_sessions, messages, n_chats, llmVars, rpVars, ppVars, genVars, deskVars, smVars>>

\* lines 52-84 and 120-179: the FAQ file and the last message of Clara are
\* read, and the router takes the first branch that applies
ChatRoute(r) ==
  /\ req[r].pc = "route"
  /\ LET q        == req[r]
         faqs_all == faq_file
         lowered  == Lower(q.user_query)
         offering == FirstStartingWith(faqs_all, K_what_cloud)
         service  == ServiceFaq(lowered, faqs_all)
         keyword  == KeywordFaq(lowered, faqs_all)
         fuzzy    == find_best_faq_match(q.user_query, faqs_all)
     IN  req' = [req EXCEPT ![r] =
           IF AsksAboutOfferings(lowered) /\ offering # 0
             THEN Routed(q, "offerings", faqs_all[offering].answer)
           ELSE IF /\ IsConfirmation(q.user_query, LastBotText(q.session))
                   /\ FirstStartingWith(faqs_all, K_what_cloud_offerings) # 0
             THEN [q EXCEPT !.pc = "read_prev_user"]
           ELSE IF service # 0 THEN Routed(q, "service", faqs_all[service].answer)
           ELSE IF keyword # 0 THEN Routed(q, "keyword", faqs_all[keyword].answer)
           ELSE IF fuzzy # 0 THEN Routed(q, "faq", faqs_all[fuzzy].answer)
           ELSE [q EXCEPT !.pc = "llm"]]
  /\ UNCHANGED <<faq_file, n_sessions, messages, n_chats, llmVars, rpVars, ppVars, genVars, deskVars, smVars>>

\* lines 86-118: the user's message before this one decides between the
\* service-selection prompt, saved as it is, and the offerings answer
ChatConfirm(r) ==
  /\ req[r].pc = "read_prev_user"
  /\ LET q        == req[r]
         offering == FirstStartingWith(faq_file, K_what_cloud_offerings)
     IN  req' = [req EXCEPT ![r] =
           IF PrevUserText(q.session) \in short_yes
             THEN Routed(q, "selection", selection_prompt)
           ELSE Routed(q, "confirm", faq_file[offering].answer)]
  /\ UNCHANGED <<faq_file, n_sessions, messages, n_chats, llmVars, rpVars, ppVars, genVars, deskVars, smVars>>

\* a handler that builds the context from the messages of all the sessions
ChatCallLLM_AnySession(r, outcome) ==
  /\ req[r].pc = "llm"
  /\ req' = [req EXCEPT ![r] =
       [Routed(req[r], "llm", generate_response(llm_model, llm_client, outcome))
          EXCEPT !.context = Join([i \in 1..Len(LastChars(messages, ContextWindow)) |->
                                   (IF LastChars(messages, ContextWindow)[i].sender = "user"
                                    THEN <<"u","s","e","r">> ELSE <<"c","l","a","r","a">>)
                                   \o <<":", " ">>
                                   \o LastChars(messages, ContextWindow)[i].text], <<"\n">>),
                 !.llm = IF call_generate_content(llm_model, llm_client, outcome).raised
                         THEN "raised" ELSE "returned"]]
  /\ UNCHANGED <<faq_file, n_sessions, messages, n_chats, llmVars, rpVars, ppVars, genVars, deskVars, smVars>>

\* lines 181-183: the messages of the session are read and made the context,
\* and the completion service is called and does `outcome`
ChatCallLLM(r, outcome) ==
  /\ req[r].pc = "llm"
  /\ req' = [req EXCEPT ![r] =
       [Routed(req[r], "llm", generate_response(llm_model, llm_client, outcome))
          EXCEPT !.context = ContextText(SessionMessages(req[r].session)),
                 !.llm = IF call_generate_content(llm_model, llm_client, outcome).raised
                         THEN "raised" ELSE "returned"]]
  /\ UNCHANGED <<faq_file, n_sessions, messages, n_chats, llmVars, rpVars, ppVars, genVars, deskVars, smVars>>

\* a handler that returns the reply without saving it
ChatSaveBot_Unsaved(r) ==
  /\ req[r].pc = "save_bot"
  /\ req' = [req EXCEPT ![r].pc = "done", ![r].status = 200, ![r].reply = req[r].raw]
  /\ UNCHANGED <<faq_file, n_sessions, messages, n_chats, llmVars, rpVars, ppVars, genVars, deskVars, smVars>>

\* the end of every branch (lines 68-75, 103-106, 110-118, 136-143, 162-169,
\* 186-197): the reply goes through the resolver inside "try: ... except
\* Exception: pass", except the service-selection prompt, which does not; it
\* is saved as Clara's message and returned
ChatSaveBot(r) ==
  /\ req[r].pc = "save_bot"
  /\ LET q        == req[r]
         resolved == IF q.branch = "selection" THEN Returned(q.raw)
                     ELSE replace_placeholders_in_reply(q.raw, faq_file)
         reply    == IF resolved.raised THEN q.raw ELSE resolved.text
     IN  /\ messages' = Append(messages, [session_id |-> q.session, sender |-> "clara",
                                          text |-> reply])
         /\ req' = [req EXCEPT ![r] =
               [q EXCEPT !.pc = "done", !.status = 200, !.reply = reply,
                         !.resolver = IF q.branch = "selection" THEN "skipped"
                                      ELSE IF resolved.raised THEN "raised"
                                      ELSE "returned"]]
  /\ UNCHANGED <<faq_file, n_sessions, n_chats, llmVars, rpVars, ppVars, genVars, deskVars, smVars>>

Next ==
  \/ \E r \in Reqs, message \in ChatMessages, session_id \in 0..(n_sessions + 1) :
       ChatReceive(r, message, session_id)
  \/ \E r \in Reqs : ChatSaveUser(r)
  \/ \E r \in Reqs : ChatRoute(r)
  \/ \E r \in Reqs : ChatConfirm(r)
  \/ \E r \in Reqs, outcome \in ChatOutcomes : ChatCallLLM(r, outcome)
  \/ \E r \in Reqs : ChatSaveBot(r)

Spec == Init /\ [][Next]_vars

(***************************************************************************)
(* POST /summarize, POST /escalate, GET /admin/sessions.csv: app/routes.py *)
(***************************************************************************)

\* the tickets of a run
MaxTickets == 1

\* a /summarize that stores the summary as a message of Clara
summarize_recorded(session_id, outcome) ==
  /\ session_id # 0 /\ session_id <= n_sessions
  /\ LET result == summarize_session(llm_model, llm_client, outcome)
     IN  /\ resp' = [NoResponse EXCEPT !.op = "summarize", !.status = 200,
                                       !.summary = result.summary,
                                       !.next_actions = result.next_actions]
         /\ messages' = Append(messages, [session_id |-> session_id, sender |-> "clara",
                                          text |-> result.summary])
  /\ UNCHANGED <<tickets, faq_file, n_sessions, req, n_chats, llmVars, rpVars, ppVars,
                 genVars, smVars>>

\* POST /summarize with "session_id" (0: missing), lines 200-218
summarize(session_id, outcome) ==
  /\ resp' =
       IF session_id = 0 THEN [NoResponse EXCEPT !.op = "summarize", !.status = 400]
       ELSE IF session_id > n_sessions
         THEN [NoResponse EXCEPT !.op = "summarize", !.status = 404]
       ELSE LET result == summarize_session(llm_model, llm_client, outcome)
            IN  [NoResponse EXCEPT !.op = "summarize", !.status = 200,
                                   !.summary = result.summary,
                                   !.next_actions = result.next_actions]
  /\ UNCHANGED <<tickets, chatVars, llmVars, rpVars, ppVars, genVars, smVars>>

\* an /escalate that makes a ticket without looking for the session
escalate_unchecked(session_id, summary, outcome) ==
  /\ Len(tickets) < MaxTickets
  /\ tickets' = Append(tickets, [session_id |-> session_id, status |-> "open",
                                 summary |-> summary])
  /\ resp' = [NoResponse EXCEPT !.op = "escalate", !.status = 200,
                                !.ticket_id = Len(tickets) + 1, !.summary = summary]
  /\ UNCHANGED <<chatVars, llmVars, rpVars, ppVars, genVars, smVars>>

\* POST /escalate with "session_id" (0: missing) and "summary" (<<>>: missing
\* or empty), lines 221-248
escalate(session_id, summary, outcome) ==
  /\ LET found == session_id # 0 /\ session_id <= n_sessions
         text  == IF summary = <<>> /\ found
                  THEN summarize_session(llm_model, llm_client, outcome).summary
                  ELSE summary
     IN  IF session_id # 0 /\ ~found
         THEN /\ resp' = [NoResponse EXCEPT !.op = "escalate", !.status = 404]
              /\ UNCHANGED tickets
         ELSE /\ Len(tickets) < MaxTickets
              /\ tickets' = Append(tickets, [session_id |-> session_id, status |-> "open",
                                             summary |-> text])
              /\ resp' = [NoResponse EXCEPT !.op = "escalate", !.status = 200,
                                            !.ticket_id = Len(tickets) + 1,
                                            !.summary = text]
  /\ UNCHANGED <<chatVars, llmVars, rpVars, ppVars, genVars, smVars>>

\* lines 261-268: the rows written for the sessions from sid on, a row per
\* message and one row with empty message fields for a session without messages
RECURSIVE CsvRows(_)
CsvRows(sid) ==
  LET ids  == {i \in 1..Len(messages) : messages[i].session_id = sid}
      Row(i) == [session_id |-> sid, message_id |-> i, sender |-> messages[i].sender,
                 text |-> Replace(messages[i].text, <<"\n">>, <<" ">>)]
      rows == [k \in 1..Cardinality(ids) |->
                 Row(CHOOSE i \in ids : Cardinality({j \in ids : j < i}) = k - 1)]
  IN  IF sid > n_sessions THEN <<>>
      ELSE (IF ids = {}
            THEN <<[session_id |-> sid, message_id |-> 0, sender |-> "", text |-> <<>>]>>
            ELSE rows) \o CsvRows(sid + 1)

\* GET /admin/sessions.csv, lines 251-275
export_sessions_csv ==
  /\ resp' = [NoResponse EXCEPT !.op = "export", !.status = 200, !.rows = CsvRows(1)]
  /\ UNCHANGED <<tickets, chatVars, llmVars, rpVars, ppVars, genVars, smVars>>

\* what a client may send as "message" here: messages that several rules of
\* the router match, a confirmation, and one that no rule matches
SupportMessages == {
  <<>>,
  <<"y","e","s">> (* "yes" *),
  <<"s","e","r","v","i","c","e"," ","1"," ","o","r"," ","v","p","s">> (* "service 1 or vps" *),
  <<"m","a","n","a","g","e","d"," ","c","l","o","u","d"," ","o","f","f","e","r","i","n","g","s">> (* "managed cloud offerings" *),
  <<"W","h","a","t"," ","i","s"," ","y","o","u","r"," ","p","u","b","l","i","c"," ","r","e","f","u","n","d"," ","p","o","l","i","c","y">> (* "What is your public refund policy" *),
  <<"y","o","u","r"," ","r","e","f","u","n","d"," ","p","o","l","i","c","y">> (* "your refund policy" *),
  M_HELLO }

\* the server runs on the database file that an earlier /chat request left
InitSupport ==
  /\ faq_file \in ChatFaqFiles
  /\ n_sessions = 1 /\ messages = Earlier
  /\ req = [r \in Reqs |-> NoRequest] /\ n_chats = 1
  /\ llm_model = TRUE /\ llm_client = FALSE
  /\ tickets = <<>> /\ resp = NoResponse
  /\ RpIdle /\ PpIdle /\ GenIdle /\ SmIdle

NextSupport ==
  \/ \E r \in Reqs, message \in SupportMessages, session_id \in 0..(n_sessions + 1) :
       ChatReceive(r, message, session_id)
  \/ \E r \in Reqs : ChatSaveUser(r)
  \/ \E r \in Reqs : ChatRoute(r)
  \/ \E r \in Reqs : ChatConfirm(r)
  \/ \E r \in Reqs, outcome \in ChatOutcomes : ChatCallLLM(r, outcome)
  \/ \E r \in Reqs : ChatSaveBot(r)
  \/ \E session_id \in 0..(n_sessions + 1), outcome \in ChatOutcomes :
       summarize(session_id, outcome)
  \/ \E session_id \in 0..(n_sessions + 1), summary \in {<<>>, M_HELLO},
        outcome \in ChatOutcomes :
       escalate(session_id, summary, outcome)
  \/ export_sessions_csv

SpecSupport == InitSupport /\ [][NextSupport]_vars

(***************************************************************************)
(* Properties                                                              *)
(***************************************************************************)

\* the sentences of a text: split on the whitespace that follows a terminal
SentencesOf(t) == SplitSentences(Strip(t))

\* C4 (as claimed): replace_placeholders_in_reply is idempotent: applied to
\* its own result it returns the same text as the first application.
C4_Idempotent ==
  rp_pc = "twice" =>
    /\ ~rp_once.raised
    /\ ~rp_twice.raised
    /\ rp_twice.text = rp_once.text

\* C5 (as claimed): whatever the reply and the FAQ list, the text that
\* replace_placeholders_in_reply returns has no two adjacent identical sentences.
C5_NoAdjacentDuplicates ==
  (rp_pc = "once" /\ ~rp_once.raised) =>
    \A i \in 1..(Len(SentencesOf(rp_once.text)) - 1) :
      SentencesOf(rp_once.text)[i] # SentencesOf(rp_once.text)[i + 1]

\* C6: whenever _call_generate_content fails (raises), generate_response
\* returns exactly the fixed "trouble reaching the support system" text.
C6_FailureGivesTroubleReply ==
  (gen_pc = "done" /\ gen_called.raised) => gen_result = TROUBLE_REPLY

\* the model object answered without a text, which the adapter makes a
\* failure, and the caller got the trouble text
C6_Witness ==
  /\ gen_pc = "done" /\ gen_called.raised /\ gen_result = TROUBLE_REPLY
  /\ gen_outcome.kind = "text_none" /\ llm_model

\* C7: whenever the formatted completion is shorter than 10 characters or
\* contains a low-confidence phrase, generate_response returns the fixed
\* escalation text.
C7_LowConfidenceEscalates ==
  (/\ gen_pc = "done" /\ ~gen_called.raised /\ gen_called.text # NonStr
   /\ \/ Len(gen_reply) < MinReplyLen
      \/ \E i \in 1..Len(low_confidence_phrases) :
           Contains(Lower(gen_reply), low_confidence_phrases[i]))
    => gen_result = ESCALATION_REPLY

\* a formatted completion of 10 characters or more that holds "can't help"
\* in capitals was escalated
C7_Witness ==
  /\ gen_pc = "done" /\ ~gen_called.raised
  /\ Len(gen_reply) >= MinReplyLen
  /\ Contains(gen_reply, <<"C","a","n","'","t"," ","h","e","l","p">>)
  /\ gen_result = ESCALATION_REPLY

IsBlank(line) == \A i \in 1..Len(line) : line[i] \in WS

\* C9: for every non-empty input, the output of postprocess_reply holds no
\* bullet glyph ('*' or U+2022) and no two consecutive blank lines.
C9_NoBulletNoDoubleBlank ==
  (pp_pc = "done" /\ pp_raw # <<>>) =>
    /\ \A i \in 1..Len(pp_out) : pp_out[i] \notin {"*", "BULLET"}
    /\ \A i \in 1..(Len(LinesFrom(pp_out, 1)) - 1) :
         ~(IsBlank(LinesFrom(pp_out, 1)[i]) /\ IsBlank(LinesFrom(pp_out, 1)[i + 1]))

\* an input with both bullet glyphs and three newlines in a row was formatted
C9_Witness ==
  /\ pp_pc = "done"
  /\ \E i, j \in 1..Len(pp_raw) : pp_raw[i] = "*" /\ pp_raw[j] = "BULLET"
  /\ \E i \in 1..(Len(pp_raw) - 2) :
       pp_raw[i] = "\n" /\ pp_raw[i + 1] = "\n" /\ pp_raw[i + 2] = "\n"
  /\ Contains(pp_out, <<"-", " ">>)

\* C1: a /chat request that has returned a reply has its text stored as a
\* "user" message of the returned session, and after it the returned reply
\* stored as a "clara" message of that session, whatever the other requests do.
C1_ReplyStoredBeforeReturn ==
  \A r \in Reqs :
    (req[r].pc = "done" /\ req[r].status = 200) =>
      /\ req[r].session \in 1..n_sessions
      /\ \E i, j \in 1..Len(messages) :
           /\ i < j
           /\ messages[i] = [session_id |-> req[r].session, sender |-> "user",
                             text |-> req[r].user_query]
           /\ messages[j] = [session_id |-> req[r].session, sender |-> "clara",
                             text |-> req[r].reply]

\* two requests to the same session ran interleaved: both their messages were
\* saved before either reply, and both have returned
C1_Witness ==
  /\ \A r \in Reqs : req[r].pc = "done" /\ req[r].status = 200
  /\ req[1].session = req[2].session
  /\ req[1].reply # req[2].reply
  /\ Len(messages) >= 4
  /\ messages[Len(messages) - 3].sender = "user"
  /\ messages[Len(messages) - 2].sender = "user"

\* C2 (as claimed): where an offerings entry exists and a session holds, one
\* after the other, a message of Clara that asks about the cloud offerings, a
\* bare confirmation, its reply, a second bare confirmation and its reply,
\* that last reply is the service-selection prompt.
C2_SecondYesGetsSelectionPrompt ==
  FirstStartingWith(faq_file, K_what_cloud_offerings) # 0 =>
    \A sid \in 1..n_sessions :
      \A i \in 1..(Len(SessionMessages(sid)) - 4) :
        LET h == SessionMessages(sid)
        IN  (/\ h[i].sender = "clara"
             /\ Contains(Lower(h[i].text), ASKED_ABOUT_OFFERINGS)
             /\ h[i + 1].sender = "user" /\ Lower(h[i + 1].text) \in short_yes
             /\ h[i + 2].sender = "clara"
             /\ h[i + 3].sender = "user" /\ Lower(h[i + 3].text) \in short_yes
             /\ h[i + 4].sender = "clara")
              => h[i + 4].text = selection_prompt

\* C3 (as claimed): every reply that /chat has saved and returned is what the
\* Placeholder Resolver returned for the reply of the branch.
C3_EveryReplyResolved ==
  \A r \in Reqs :
    (req[r].pc = "done" /\ req[r].status = 200) => req[r].resolver = "returned"

\* C8 (as claimed): a request whose message contains "cloud offering", with an
\* entry in the FAQ file whose question starts with "what cloud", returns what
\* the Placeholder Resolver makes of that entry's answer, and the completion
\* service is not called.
C8_OfferingsAnswerResolved ==
  \A r \in Reqs :
    (/\ req[r].pc = "done" /\ req[r].status = 200
     /\ Contains(Lower(req[r].user_query), K_cloud_offering)
     /\ FirstStartingWith(faq_file, K_what_cloud) # 0)
      => LET answer == faq_file[FirstStartingWith(faq_file, K_what_cloud)].answer
         IN  /\ req[r].llm = "none"
             /\ ~replace_placeholders_in_reply(answer, faq_file).raised
             /\ req[r].reply = replace_placeholders_in_reply(answer, faq_file).text

\* C10: a /chat request whose message is missing, empty or all whitespace is
\* answered with 400 and changes neither the sessions nor the messages,
\* whatever session_id it carries.
C10_EmptyMessageRefused ==
  [][\A r \in Reqs, message \in ChatMessages, session_id \in 0..(n_sessions + 1) :
       (/\ \A i \in 1..Len(message) : message[i] \in WS
        /\ ChatReceive(r, message, session_id))
         => /\ req'[r].pc = "done" /\ req'[r].status = 400
            /\ UNCHANGED <<n_sessions, messages>>]_vars

\* two requests were refused, and the store is as empty as it started
C10_Witness ==
  /\ req[1].pc = "done" /\ req[1].status = 400 /\ req[2].pc = "idle"
  /\ n_chats = 2 /\ n_sessions = 0 /\ messages = <<>>

\* C12 (as claimed): a completion that holds "summary:" and after it
\* "next_actions:", in any letter case, and that the call returned, is parsed:
\* the summary is the text between the markers and the actions are the first
\* lines that are not empty after the second marker, 3 at most; the result is
\* not the fixed "Unable to summarize" one.
C12_MarkersParsed ==
  LET called  == call_generate_content(llm_model, llm_client, sm_outcome)
      reply   == Strip(called.text)
      i       == Find(Lower(reply), <<"s","u","m","m","a","r","y",":">>)
      after   == Strip(From(reply, i + 8))
      j       == Find(Lower(after), <<"n","e","x","t","_","a","c","t","i","o","n","s",":">>)
      between == Clean(SubSeq(after, 1, j - 1))
      listed  == CleanLines(LinesFrom(From(after, j + 13), 1))
  IN  (/\ sm_pc = "done" /\ ~called.raised /\ called.text # NonStr
       /\ i # 0 /\ j # 0)
        => /\ sm_result # UNABLE_SUMMARY
           /\ between # <<>> => sm_result.summary = between
           /\ sm_result.next_actions = SubSeq(listed, 1, Min({3, Len(listed)}))

\* C11: every stored ticket has the status "open"; a step that changes the
\* tickets appends one ticket and is an /escalate call answered with the id of
\* that ticket; an /escalate call that names a session which is not stored is
\* answered with 404 and leaves the tickets as they are; no step of a /chat
\* request and no /summarize call changes the tickets.
C11_TicketsOnlyByEscalate ==
  [][/\ \A t \in 1..Len(tickets') : tickets'[t].status = "open"
     /\ tickets' # tickets =>
          /\ tickets' = Append(tickets, tickets'[Len(tickets')])
          /\ resp'.op = "escalate" /\ resp'.status = 200
          /\ resp'.ticket_id = Len(tickets')
     /\ \A session_id \in 1..(n_sessions + 1), summary \in {<<>>, M_HELLO},
          outcome \in ChatOutcomes :
          (session_id > n_sessions /\ escalate(session_id, summary, outcome))
            => (resp'.status = 404 /\ UNCHANGED tickets)
     /\ req' # req => UNCHANGED tickets
     /\ tickets' # tickets =>
          \A session_id \in 0..(n_sessions + 1), outcome \in ChatOutcomes :
            ~summarize(session_id, outcome)]_vars

\* a ticket was made for session 1 with a summary of the session, a /chat
\* request was answered, and a later /escalate for a session that is not
\* stored got 404
C11_Witness ==
  /\ Len(tickets) = 1 /\ tickets[1].session_id = 1 /\ tickets[1].status = "open"
  /\ tickets[1].summary = L_ASKS
  /\ resp.op = "escalate" /\ resp.status = 404
  /\ \E r \in Reqs : req[r].pc = "done" /\ req[r].status = 200

\* C13: the reply of the router is that of the first rule that applies. With
\* all the FAQ targets in the file, a request that has returned and whose
\* message rule 1 matches has the offerings answer; one answered by rule 2 was
\* a bare confirmation; otherwise the answer is that of rule 3 if its message
\* is "service N" with N from 1 to 3, else that of the first keyword of the
\* table it holds, else that of its fuzzy match.  Whatever the file, the
\* completion service was called only if none of rules 1, 3, 4 and 5 had an
\* answer and rule 2 did not answer.
C13_FirstMatchingRuleDecides ==
  \A r \in Reqs :
    (req[r].pc = "done" /\ req[r].status = 200) =>
      LET q       == req[r]
          lowered == Lower(q.user_query)
          rule1   == AsksAboutOfferings(lowered)
          rule3   == ServiceTarget(lowered) # <<>>
          held    == {k \in 1..Len(quick_keyword_map) :
                        Contains(lowered, quick_keyword_map[k].kw)}
          fuzzy   == find_best_faq_match(q.user_query, faq_file)
          AnswerTo(target_q) == faq_file[FirstAsking(faq_file, target_q)].answer
      IN  /\ faq_file = FullFaqs =>
               IF rule1 THEN q.branch = "offerings" /\ q.raw = FullFaqs[1].answer
               ELSE IF q.branch \in {"confirm", "selection"}
                 THEN lowered \in short_yes
               ELSE IF rule3
                 THEN q.branch = "service" /\ q.raw = AnswerTo(ServiceTarget(lowered))
               ELSE IF held # {}
                 THEN /\ q.branch = "keyword"
                      /\ q.raw = AnswerTo(quick_keyword_map[Min(held)].target_q)
               ELSE IF fuzzy # 0
                 THEN q.branch = "faq" /\ q.raw = FullFaqs[fuzzy].answer
               ELSE q.branch = "llm" /\ q.llm # "none"
          /\ (faq_file = FullFaqs /\ StartsWith(lowered, <<"s","e","r","v","i","c","e"," ","1">>)
                /\ Contains(lowered, <<"v","p","s">>))
               => q.raw = FullFaqs[2].answer
          /\ (faq_file = FullFaqs /\ Contains(lowered, K_cloud_offering)
                /\ Contains(lowered, <<"m","a","n","a","g","e","d">>))
               => q.raw = FullFaqs[1].answer
          /\ q.llm # "none" =>
               /\ q.branch = "llm"
               /\ ~(rule1 /\ FirstStartingWith(faq_file, K_what_cloud) # 0)
               /\ ServiceFaq(lowered, faq_file) = 0
               /\ KeywordFaq(lowered, faq_file) = 0
               /\ fuzzy = 0

\* "service 1 or vps", which rules 3 and 4 match, got the answer of rule 3
C13_Witness ==
  \E r \in Reqs :
    /\ req[r].pc = "done" /\ req[r].status = 200
    /\ StartsWith(req[r].user_query, <<"s","e","r","v","i","c","e"," ","1">>)
    /\ Contains(req[r].user_query, <<"v","p","s">>)
    /\ req[r].branch = "service"
    /\ req[r].reply = FullFaqs[2].answer /\ req[r].llm = "none"

\* C14 (as claimed): the context of a request that went to the completion
\* service is the lines of the last min(10, n) messages of its session up to
\* its own user message, which is the last of them.
C14_ContextEndsWithOwnMessage ==
  \A r \in Reqs :
    req[r].llm # "none" =>
      LET q   == req[r]
          own == Cardinality({i \in 1..q.user_msg : messages[i].session_id = q.session})
      IN  q.context = ContextText(SubSeq(SessionMessages(q.session), 1, own))

\* C14 (amended): the context of a request that went to the completion service
\* is the lines of the last min(10, n) messages, oldest first, that its own
\* session held when the context was read: the n messages of the session up to
\* the request's own user message or up to a message that another request
\* stored in the session after it; no message of another session is in it.
C14_ContextIsSessionTail ==
  \A r \in Reqs :
    req[r].llm # "none" =>
      LET q   == req[r]
          h   == SessionMessages(q.session)
          own == Cardinality({i \in 1..q.user_msg : messages[i].session_id = q.session})
      IN  /\ own >= 1 /\ h[own].sender = "user" /\ h[own].text = q.user_query
          /\ \E n \in own..Len(h) : q.context = ContextText(SubSeq(h, 1, n))

\* a request to the session of ten messages read its context after another
\* request had stored its message there: the context is the last ten of
\* twelve and ends with the other request's message
C14_Witness ==
  \E r \in Reqs :
    LET q == req[r]
        h == SessionMessages(q.session)
    IN  /\ q.llm # "none" /\ q.session = 1 /\ q.user_msg = 11
        /\ Len(h) >= 12
        /\ q.context = ContextText(SubSeq(h, 3, 12))
        /\ q.context # ContextText(SubSeq(h, 1, 11))

\* C15: the messages only grow at the end: every step keeps the stored
\* messages as they are; a step that adds a message is no /summarize, no
\* /escalate and no CSV export, and it adds one message of the session of one
\* /chat request in flight, whose count of saved messages goes up by one; the
\* count is 0 when the request starts or is refused, and 2 when it has
\* returned a reply.
C15_MessagesAppendOnly ==
  [][LET Saved(q) == CASE q.pc \in {"idle", "save_user"} -> 0
                       [] q.pc = "done" -> IF q.status = 200 THEN 2 ELSE 0
                       [] OTHER -> 1
         Gain(r) == IF Free(r) THEN (IF req'[r] = req[r] THEN 0 ELSE Saved(req'[r]))
                    ELSE Saved(req'[r]) - Saved(req[r])
     IN  /\ Len(messages') >= Len(messages)
         /\ SubSeq(messages', 1, Len(messages)) = messages
         /\ \A r \in Reqs : Gain(r) \in {0, 1}
         /\ Len(messages') - Len(messages) = Cardinality({r \in Reqs : Gain(r) = 1})
         /\ \A r \in Reqs :
              Gain(r) = 1 => messages'[Len(messages')].session_id = req[r].session
         /\ messages' # messages =>
              /\ resp' = resp /\ tickets' = tickets
              /\ \A session_id \in 0..(n_sessions + 1), outcome \in ChatOutcomes :
                   /\ ~summarize(session_id, outcome)
                   /\ \A summary \in {<<>>, M_HELLO} : ~escalate(session_id, summary, outcome)
              /\ ~export_sessions_csv]_vars

\* after a /summarize, an /escalate that made a ticket, a /chat that returned
\* a reply and a CSV export of four rows, the store holds the two messages it
\* started with and the two of the /chat
C15_Witness ==
  /\ Len(messages) = Len(Earlier) + 2
  /\ SubSeq(messages, 1, Len(Earlier)) = Earlier
  /\ \E r \in Reqs : req[r].pc = "done" /\ req[r].status = 200
  /\ Len(tickets) = 1
  /\ resp.op = "export" /\ Len(resp.rows) = Len(messages)

\* C16: in the text postprocess_reply returns, a line that starts a list item
\* ("- " or a number, a full stop and a space) never comes directly after a
\* line of prose (a line that is not empty and starts no list item): an empty
\* line stands between them.
C16_BlankLineBeforeList ==
  pp_pc = "done" =>
    LET lines   == LinesFrom(pp_out, 1)
        Item(l) == ListMarkerEnd(l, 1) # 0
    IN  \A i \in 1..(Len(lines) - 1) :
          ~(lines[i] # <<>> /\ ~Item(lines[i]) /\ Item(lines[i + 1]))

\* C17: when the call returned a text of more than 20 characters that has no
\* question mark, none of the low-confidence phrases and no mention of
\* escalation, generate_response returns the formatted reply, which ends with
\* the follow-up question, and not the escalation text.
C17_FollowUpNotLowConfidence ==
  (/\ gen_pc = "done"
   /\ ~gen_called.raised /\ gen_called.text # NonStr
   /\ Len(gen_called.text) > FollowUpMinLen
   /\ ~Contains(gen_called.text, <<"?">>)
   /\ ~Contains(Lower(gen_called.text), <<"e","s","c","a","l","a","t">>)
   /\ \A i \in 1..Len(low_confidence_phrases) :
        ~Contains(Lower(gen_called.text), low_confidence_phrases[i]))
  => /\ gen_result = gen_reply
     /\ gen_result # ESCALATION_REPLY
     /\ LastChars(gen_result, Len(FOLLOW_UP)) = FOLLOW_UP

\* C18: a /chat request that is answered with the service-selection prompt
\* has, among the messages stored before its own user message, a user message
\* of its session, and the last of them is a bare confirmation.
C18_SelectionOnlyAfterConfirmation ==
  \A r \in Reqs :
    (req[r].pc \in {"save_bot", "done"} /\ req[r].branch = "selection") =>
      LET before == {i \in 1..(req[r].user_msg - 1) :
                       /\ messages[i].session_id = req[r].session
                       /\ messages[i].sender = "user"}
      IN  /\ before # {}
          /\ Lower(messages[CHOOSE i \in before : \A j \in before : j <= i].text)
               \in short_yes

====
